---- MODULE Spec2Model ----
(***************************************************************************)
(* Drag-to-scroll plugin (src/main.ts, class DragToScrollPlugin with       *)
(* settings, lines 106-340): the gesture classifier (mousedown /           *)
(* mousemove / mouseup / contextmenu handlers) and the inertia engine      *)
(* (startInertiaScroll / stopInertiaScroll / inertiaStep driven by         *)
(* requestAnimationFrame).                                                 *)
(*                                                                         *)
(* Numbers.  Pointer coordinates are integers.  lastVelocityY is a         *)
(* JavaScript number that is multiplied by the friction setting, a         *)
(* multiple of 0.01 (slider step).  It is modelled exactly, as a decimal   *)
(* fixed-point value [neg, k, digs]: the magnitude is the little-endian    *)
(* base-100 digit string digs divided by 100^k.  The friction setting is   *)
(* held in hundredths (92 stands for 0.92).                                *)
(***************************************************************************)
EXTENDS Integers, Sequences, FiniteSets, TLC

\* ------------------------------------------------------------------ bounds

\* Largest pointer Y coordinate the environment delivers.
MaxY == 100

\* Pointer Y coordinates of the delivered mouse events.
Ys == {85, 90} \cup (100..MaxY)

\* Buttons of the delivered mouse events (0 left, 2 right).
Buttons == {0, 2}

\* ------------------------------------------------------- program constants

DRAG_THRESHOLD == 5

\* animationFrameId : number | null.  The code tests the handle for
\* truthiness, so null and 0 are the same "no handle" value.
NullFrame == 0

DEFAULT_SETTINGS == [mouseButton |-> 2, modifierKey |-> "none", friction |-> 92]

\* Settings records the plugin may hold after loadSettings (fixed while the
\* handlers run).
SettingsChoices ==
    { DEFAULT_SETTINGS,
      [mouseButton |-> 0, modifierKey |-> "ctrl",  friction |-> 80],
      [mouseButton |-> 2, modifierKey |-> "shift", friction |-> 80],
      [mouseButton |-> 0, modifierKey |-> "alt",   friction |-> 85] }

\* The fields of DragToScrollSettings.
Fields == {"mouseButton", "modifierKey", "friction"}

\* The values the settings tab can give a field: the options of the two
\* dropdowns and the slider's range 0.80 .. 0.99 in steps of 0.01.
AllowedValues(f) ==
    IF f = "mouseButton" THEN {0, 1, 2}
    ELSE IF f = "modifierKey" THEN {"none", "ctrl", "shift", "alt"}
    ELSE 80..99

\* What the settings store may hold for a field: nothing (the empty record),
\* allowed values, and values outside the allowed set.
StoredField(f) ==
    {<<>>} \cup
    IF f = "mouseButton" THEN {[mouseButton |-> b] : b \in {0, 2, 5}}
    ELSE IF f = "modifierKey"
         THEN {[modifierKey |-> m] : m \in {"none", "ctrl", "meta"}}
    ELSE {[friction |-> x] : x \in {79, 80, 92, 99, 100, 150}}

\* The records loadData() may resolve to.  A store with no data (null) adds
\* no field to the merge, like the empty record.
StoredData ==
    { b @@ m @@ x : b \in StoredField("mouseButton"),
                    m \in StoredField("modifierKey"),
                    x \in StoredField("friction") }

\* Object.assign({}, DEFAULT_SETTINGS, stored): every field of stored, and
\* the default for each field stored does not have.
loadSettings(stored) == stored @@ DEFAULT_SETTINGS

\* this.settings before loadSettings has run.
NoSettings == <<>>

\* ------------------------------------------------------- exact arithmetic

Zero == [neg |-> FALSE, k |-> 0, digs |-> <<>>]

RECURSIVE Digits(_)
Digits(n) == IF n = 0 THEN <<>> ELSE <<n % 100>> \o Digits(n \div 100)

\* The number n (an integer) as a fixed-point value.
Num(n) ==
    IF n = 0 THEN Zero
    ELSE [neg |-> n < 0, k |-> 0, digs |-> Digits(IF n < 0 THEN -n ELSE n)]

RECURSIVE StripHigh(_)
StripHigh(d) ==
    IF d = <<>> THEN d
    ELSE IF d[Len(d)] = 0 THEN StripHigh(SubSeq(d, 1, Len(d) - 1))
    ELSE d

\* Canonical form: no high zero digit, no low zero digit while k > 0.
RECURSIVE Normalize(_, _, _)
Normalize(neg, k, digs) ==
    LET h == StripHigh(digs) IN
    IF h = <<>> THEN Zero
    ELSE IF k > 0 /\ Head(h) = 0 THEN Normalize(neg, k - 1, Tail(h))
    ELSE [neg |-> neg, k |-> k, digs |-> h]

RECURSIVE MulCarry(_, _, _)
MulCarry(digs, f, carry) ==
    IF digs = <<>>
    THEN IF carry = 0 THEN <<>>
         ELSE <<carry % 100>> \o MulCarry(<<>>, f, carry \div 100)
    ELSE LET p == Head(digs) * f + carry
         IN  <<p % 100>> \o MulCarry(Tail(digs), f, p \div 100)

\* The integer digs (little-endian, base 100).
RECURSIVE DigitsValue(_)
DigitsValue(digs) ==
    IF digs = <<>> THEN 0 ELSE Head(digs) + 100 * DigitsValue(Tail(digs))

\* The integer that the fixed-point value v (with no fraction digit) stands for.
IntValue(v) == IF v.neg THEN 0 - DigitsValue(v.digs) ELSE DigitsValue(v.digs)

\* v * (f / 100), exactly.
Times(v, f) == Normalize(v.neg, v.k + 1, MulCarry(v.digs, f, 0))

\* Math.abs(v) < 1: the magnitude has no integer digit.
AbsLessThanOne(v) == Len(v.digs) <= v.k

\* ------------------------------------------------------------ environment

NoEl == "none"

NoView == [mode |-> "none", els |-> {}]

\* Active-view states: no markdown view, or a view in a mode whose
\* container holds the given scroller elements.
Views ==
    {NoView} \cup
    [mode : {"source", "preview"},
     els  : {{"cm-scroller", "markdown-preview-view"}, {}}]

MouseDownEvents ==
    [button : Buttons, ctrlKey : BOOLEAN, altKey : BOOLEAN, shiftKey : BOOLEAN,
     inside : BOOLEAN, clientY : Ys]

MouseMoveEvents == [clientY : Ys]

MouseUpEvents == [button : Buttons]

NoScroll == [el |-> NoEl, dy |-> Zero]

VARIABLES
    settings,           \* this.settings
    isDragging,         \* this.isDragging
    startY,             \* this.startY
    didDrag,            \* this.didDrag
    lastVelocityY,      \* this.lastVelocityY
    animationFrameId,   \* this.animationFrameId
    pendingFrames,      \* frame scheduler: handles of the callbacks outstanding
    bodyClass,          \* document.body has class is-dragging-to-scroll
    view,               \* workspace: the active markdown view
    loaded,             \* the plugin's listeners are registered
    lastOp,             \* the handler that ran last
    evtButton,          \* evt.button of the last mousedown / mouseup (-1: other)
    defaultPrevented,   \* the last event had preventDefault() called
    propagationStopped, \* the last event had stopImmediatePropagation() called
    scrolled,           \* the scrollBy call the last handler made
    cancelledFrames,    \* outstanding callbacks the last handler cancelled
    confirmedOn,        \* history: the scroll target on which the current
                        \* gesture's drag was first confirmed (none: not yet,
                        \* or no gesture is active)
    runSeed,            \* history: lastVelocityY when the current run started
    runTicks,           \* history: scrolling ticks of the current run
    downY,              \* history: clientY of the pointer-down that armed the
                        \* current gesture (0: no gesture is active)
    gestureScroll,      \* history: sum of the scrollBy amounts the current
                        \* gesture's pointer-moves have applied
    data                \* settings store: the record loadData() resolves to

progVars == <<isDragging, startY, didDrag, lastVelocityY, animationFrameId>>

vars == <<settings, isDragging, startY, didDrag, lastVelocityY, animationFrameId,
          pendingFrames, bodyClass, view, loaded, lastOp, evtButton,
          defaultPrevented, propagationStopped, scrolled, cancelledFrames,
          confirmedOn, runSeed, runTicks, downY, gestureScroll, data>>

\* ------------------------------------------------------------- the plugin

\* Mutant: only the source-mode scroller is ever looked up.
getScrollableElementSourceOnly ==
    IF view.mode = "none" THEN NoEl
    ELSE IF view.mode = "source"
         THEN IF "cm-scroller" \in view.els THEN "cm-scroller" ELSE NoEl
    ELSE NoEl

getScrollableElement ==
    IF view.mode = "none" THEN NoEl
    ELSE IF view.mode = "source"
         THEN IF "cm-scroller" \in view.els THEN "cm-scroller" ELSE NoEl
    ELSE IF view.mode = "preview"
         THEN IF "markdown-preview-view" \in view.els
              THEN "markdown-preview-view" ELSE NoEl
    ELSE NoEl

\* requestAnimationFrame: a new handle, one that no outstanding callback has
\* and that differs from the handles in issued (the handle the plugin still
\* stores, the handle of the callback that is running).
requestAnimationFrame(pending, issued) ==
    CHOOSE h \in 1..(Cardinality(pending \cup issued) + 1) :
        /\ h \notin pending \cup issued
        /\ \A g \in 1..(h - 1) : g \in pending \cup issued

cancelAnimationFrame(pending, h) == pending \ {h}

\* The inertia engine's fields and the scheduler, as one value.
Engine ==
    [animationFrameId |-> animationFrameId,
     pendingFrames    |-> pendingFrames,
     lastVelocityY    |-> lastVelocityY]

\* Mutant: the stored handle is cleared but the callback is not cancelled.
stopInertiaScrollNoCancel(en) ==
    [animationFrameId |-> NullFrame,
     pendingFrames    |-> en.pendingFrames,
     lastVelocityY    |-> Zero]

\* Mutant: the callback is cancelled and the handle cleared, but the velocity
\* is not zeroed.
stopInertiaScrollKeepsVelocity(en) ==
    [animationFrameId |-> NullFrame,
     pendingFrames    |-> IF en.animationFrameId # NullFrame
                          THEN cancelAnimationFrame(en.pendingFrames, en.animationFrameId)
                          ELSE en.pendingFrames,
     lastVelocityY    |-> en.lastVelocityY]

\* Mutant: the velocity is zeroed, but the handle is kept and the callback
\* is not cancelled.
stopInertiaScrollVelocityOnly(en) ==
    [animationFrameId |-> en.animationFrameId,
     pendingFrames    |-> en.pendingFrames,
     lastVelocityY    |-> Zero]

stopInertiaScroll(en) ==
    [animationFrameId |-> NullFrame,
     pendingFrames    |-> IF en.animationFrameId # NullFrame
                          THEN cancelAnimationFrame(en.pendingFrames, en.animationFrameId)
                          ELSE en.pendingFrames,
     lastVelocityY    |-> Zero]

startInertiaScroll(en) ==
    LET cancelled == IF en.animationFrameId # NullFrame
                     THEN cancelAnimationFrame(en.pendingFrames, en.animationFrameId)
                     ELSE en.pendingFrames
        h == requestAnimationFrame(cancelled, {en.animationFrameId})
    IN  [animationFrameId |-> h,
         pendingFrames    |-> cancelled \cup {h},
         lastVelocityY    |-> en.lastVelocityY]

SetEngine(en) ==
    /\ animationFrameId' = en.animationFrameId
    /\ pendingFrames' = en.pendingFrames
    /\ lastVelocityY' = en.lastVelocityY

\* The fields as the class initializers leave them, and the environment.
Constructed ==
    /\ isDragging = FALSE
    /\ startY = 0
    /\ didDrag = FALSE
    /\ lastVelocityY = Zero
    /\ animationFrameId = NullFrame
    /\ pendingFrames = {}
    /\ bodyClass = FALSE
    /\ view \in Views
    /\ evtButton = -1
    /\ defaultPrevented = FALSE
    /\ propagationStopped = FALSE
    /\ scrolled = NoScroll
    /\ cancelledFrames = {}
    /\ confirmedOn = NoEl
    /\ runSeed = Zero
    /\ runTicks = 0
    /\ downY = 0
    /\ gestureScroll = 0

\* The plugin after onload, with a record of the settings tab in the store.
Init ==
    /\ data \in SettingsChoices
    /\ settings = loadSettings(data)
    /\ loaded = TRUE
    /\ lastOp = "onload"
    /\ Constructed

\* Mutant: with modifierKey none, held modifier keys are not looked at.
ModifierRejectsNoneUnchecked(e) ==
    LET mod == settings.modifierKey
    IN  \/ (mod = "ctrl" /\ ~e.ctrlKey)
        \/ (mod = "shift" /\ ~e.shiftKey)
        \/ (mod = "alt" /\ ~e.altKey)

\* The modifier test of handleMouseDown: TRUE when the handler returns.
ModifierRejects(e) ==
    LET mod == settings.modifierKey
        isModKeyPressed == e.ctrlKey \/ e.altKey \/ e.shiftKey
    IN  \/ (mod = "ctrl" /\ ~e.ctrlKey)
        \/ (mod = "shift" /\ ~e.shiftKey)
        \/ (mod = "alt" /\ ~e.altKey)
        \/ (mod = "none" /\ isModKeyPressed)

\* Mutant: the button test compares with the right button, not the setting.
MouseDownPathRightButtonOnly(e) ==
    IF e.button # 2 THEN "button"
    ELSE IF ModifierRejects(e) THEN "modifier"
    ELSE IF ~e.inside THEN "target"
    ELSE IF getScrollableElement = NoEl THEN "scrollable"
    ELSE "arm"

\* The point at which handleMouseDown returns: at the button test, at the
\* modifier test, at the target test, at the scroll-target test, or at its
\* end ("arm").
MouseDownPath(e) ==
    IF e.button # settings.mouseButton THEN "button"
    ELSE IF ModifierRejects(e) THEN "modifier"
    ELSE IF ~e.inside THEN "target"
    ELSE IF getScrollableElement = NoEl THEN "scrollable"
    ELSE "arm"

handleMouseDown(e) ==
    /\ loaded
    /\ lastOp' = "mousedown"
    /\ evtButton' = e.button
    /\ propagationStopped' = FALSE
    /\ scrolled' = NoScroll
    /\ UNCHANGED <<settings, bodyClass, view, loaded, data>>
    /\ LET path == MouseDownPath(e) IN
       IF path \in {"button", "modifier"}
       THEN /\ defaultPrevented' = FALSE
            /\ UNCHANGED <<progVars, pendingFrames, confirmedOn, runSeed, runTicks,
                           downY, gestureScroll>>
       ELSE LET en == stopInertiaScroll(Engine) IN
            /\ runSeed' = Zero
            /\ runTicks' = 0
            /\ animationFrameId' = en.animationFrameId
            /\ pendingFrames' = en.pendingFrames
            /\ IF path # "arm"
               THEN /\ lastVelocityY' = en.lastVelocityY
                    /\ defaultPrevented' = FALSE
                    /\ UNCHANGED <<isDragging, startY, didDrag, confirmedOn,
                                   downY, gestureScroll>>
               ELSE /\ isDragging' = TRUE
                    /\ startY' = e.clientY
                    /\ didDrag' = FALSE
                    /\ lastVelocityY' = Zero
                    /\ defaultPrevented' = TRUE
                    /\ confirmedOn' = NoEl
                    /\ downY' = e.clientY
                    /\ gestureScroll' = 0
    /\ cancelledFrames' = pendingFrames \ pendingFrames'

Abs(n) == IF n < 0 THEN -n ELSE n

\* Mutant: a displacement equal to the threshold confirms the drag.
DragMoveThresholdInclusive(clientY, scrollableEl) ==
    LET crossed == ~didDrag /\ Abs(clientY - startY) >= DRAG_THRESHOLD
        deltaY == clientY - startY
        scrollAmount == Num(-deltaY)
    IN  IF didDrag \/ crossed
        THEN [didDrag |-> TRUE, addClass |-> crossed,
              scrolled |-> [el |-> scrollableEl, dy |-> scrollAmount],
              lastVelocityY |-> scrollAmount, startY |-> clientY]
        ELSE [didDrag |-> FALSE, addClass |-> FALSE, scrolled |-> NoScroll,
              lastVelocityY |-> lastVelocityY, startY |-> startY]

\* Mutant: the scroll follows the pointer instead of opposing it.
DragMoveNotInverted(clientY, scrollableEl) ==
    LET crossed == ~didDrag /\ Abs(clientY - startY) > DRAG_THRESHOLD
        deltaY == clientY - startY
        scrollAmount == Num(deltaY)
    IN  IF didDrag \/ crossed
        THEN [didDrag |-> TRUE, addClass |-> crossed,
              scrolled |-> [el |-> scrollableEl, dy |-> scrollAmount],
              lastVelocityY |-> scrollAmount, startY |-> clientY]
        ELSE [didDrag |-> FALSE, addClass |-> FALSE, scrolled |-> NoScroll,
              lastVelocityY |-> lastVelocityY, startY |-> startY]

\* Mutant: the anchor is not rebased, so deltas are taken from the
\* pointer-down position.
DragMoveAnchorNotRebased(clientY, scrollableEl) ==
    LET crossed == ~didDrag /\ Abs(clientY - startY) > DRAG_THRESHOLD
        deltaY == clientY - startY
        scrollAmount == Num(-deltaY)
    IN  IF didDrag \/ crossed
        THEN [didDrag |-> TRUE, addClass |-> crossed,
              scrolled |-> [el |-> scrollableEl, dy |-> scrollAmount],
              lastVelocityY |-> scrollAmount, startY |-> startY]
        ELSE [didDrag |-> FALSE, addClass |-> FALSE, scrolled |-> NoScroll,
              lastVelocityY |-> lastVelocityY, startY |-> startY]

\* Mutant: the move that crosses the threshold confirms the drag and rebases
\* the anchor but does not scroll.
DragMoveCrossingNotScrolled(clientY, scrollableEl) ==
    LET crossed == ~didDrag /\ Abs(clientY - startY) > DRAG_THRESHOLD
        deltaY == clientY - startY
        scrollAmount == Num(-deltaY)
    IN  IF didDrag \/ crossed
        THEN [didDrag |-> TRUE, addClass |-> crossed,
              scrolled |-> IF crossed THEN NoScroll
                           ELSE [el |-> scrollableEl, dy |-> scrollAmount],
              lastVelocityY |-> scrollAmount, startY |-> clientY]
        ELSE [didDrag |-> FALSE, addClass |-> FALSE, scrolled |-> NoScroll,
              lastVelocityY |-> lastVelocityY, startY |-> startY]

\* The body of handleMouseMove once isDragging holds and scrollableEl is
\* found: the new didDrag, whether the class is added, and the scroll made.
DragMove(clientY, scrollableEl) ==
    LET crossed == ~didDrag /\ Abs(clientY - startY) > DRAG_THRESHOLD
        deltaY == clientY - startY
        scrollAmount == Num(-deltaY)
    IN  IF didDrag \/ crossed
        THEN [didDrag |-> TRUE, addClass |-> crossed,
              scrolled |-> [el |-> scrollableEl, dy |-> scrollAmount],
              lastVelocityY |-> scrollAmount, startY |-> clientY]
        ELSE [didDrag |-> FALSE, addClass |-> FALSE, scrolled |-> NoScroll,
              lastVelocityY |-> lastVelocityY, startY |-> startY]

handleMouseMove(e) ==
    /\ loaded
    /\ lastOp' = "mousemove"
    /\ evtButton' = -1
    /\ defaultPrevented' = FALSE
    /\ propagationStopped' = FALSE
    /\ cancelledFrames' = {}
    /\ UNCHANGED <<settings, isDragging, animationFrameId, pendingFrames, view,
                   loaded, runSeed, runTicks, downY, data>>
    /\ LET scrollableEl == getScrollableElement IN
       IF ~isDragging \/ scrollableEl = NoEl
       THEN /\ scrolled' = NoScroll
            /\ UNCHANGED <<startY, didDrag, lastVelocityY, bodyClass, confirmedOn,
                           gestureScroll>>
       ELSE LET r == DragMove(e.clientY, scrollableEl) IN
            /\ didDrag' = r.didDrag
            /\ bodyClass' = (bodyClass \/ r.addClass)
            /\ scrolled' = r.scrolled
            /\ lastVelocityY' = r.lastVelocityY
            /\ startY' = r.startY
            /\ confirmedOn' = IF r.addClass /\ confirmedOn = NoEl
                              THEN scrollableEl ELSE confirmedOn
            /\ gestureScroll' = IF r.scrolled.el # NoEl
                                THEN gestureScroll + IntValue(r.scrolled.dy)
                                ELSE gestureScroll

handleMouseUp(e) ==
    /\ loaded
    /\ lastOp' = "mouseup"
    /\ evtButton' = e.button
    /\ defaultPrevented' = FALSE
    /\ propagationStopped' = FALSE
    /\ scrolled' = NoScroll
    /\ UNCHANGED <<settings, startY, didDrag, view, loaded, data>>
    /\ IF e.button # settings.mouseButton \/ ~isDragging
       THEN UNCHANGED <<isDragging, lastVelocityY, animationFrameId, pendingFrames,
                        bodyClass, confirmedOn, runSeed, runTicks, downY,
                        gestureScroll>>
       ELSE /\ isDragging' = FALSE
            /\ confirmedOn' = NoEl
            /\ downY' = 0
            /\ gestureScroll' = 0
            /\ IF didDrag
               THEN /\ bodyClass' = FALSE
                    /\ SetEngine(startInertiaScroll(Engine))
                    /\ runSeed' = lastVelocityY
                    /\ runTicks' = 0
               ELSE UNCHANGED <<lastVelocityY, animationFrameId, pendingFrames,
                                bodyClass, runSeed, runTicks>>
    /\ cancelledFrames' = pendingFrames \ pendingFrames'

\* Mutant: the menu is suppressed after a drag with any trigger button.
ContextMenuSuppressesAnyButton == didDrag

\* handleContextMenu calls preventDefault and stopImmediatePropagation.
ContextMenuSuppresses == didDrag /\ settings.mouseButton = 2

handleContextMenu ==
    /\ loaded
    /\ lastOp' = "contextmenu"
    /\ evtButton' = -1
    /\ defaultPrevented' = ContextMenuSuppresses
    /\ propagationStopped' = ContextMenuSuppresses
    /\ scrolled' = NoScroll
    /\ cancelledFrames' = {}
    /\ didDrag' = FALSE
    /\ UNCHANGED <<settings, isDragging, startY, lastVelocityY, animationFrameId,
                   pendingFrames, bodyClass, view, loaded, confirmedOn, runSeed,
                   runTicks, downY, gestureScroll, data>>

\* Mutant: the handle of the rescheduled callback is not stored.
InertiaTickHandleNotStored(en, h, scrollableEl) ==
    IF scrollableEl = NoEl \/ AbsLessThanOne(en.lastVelocityY)
    THEN [engine |-> stopInertiaScroll(en), scrolled |-> NoScroll, goesOn |-> FALSE]
    ELSE LET nh == requestAnimationFrame(en.pendingFrames, {h, en.animationFrameId})
         IN  [engine |-> [animationFrameId |-> en.animationFrameId,
                          pendingFrames    |-> en.pendingFrames \cup {nh},
                          lastVelocityY    |-> Times(en.lastVelocityY, settings.friction)],
              scrolled |-> [el |-> scrollableEl, dy |-> en.lastVelocityY],
              goesOn |-> TRUE]

\* Mutant: friction is applied before the scroll is made.
InertiaTickScrollsAfterFriction(en, h, scrollableEl) ==
    IF scrollableEl = NoEl \/ AbsLessThanOne(en.lastVelocityY)
    THEN [engine |-> stopInertiaScroll(en), scrolled |-> NoScroll, goesOn |-> FALSE]
    ELSE LET nh == requestAnimationFrame(en.pendingFrames, {h, en.animationFrameId})
             v  == Times(en.lastVelocityY, settings.friction)
         IN  [engine |-> [animationFrameId |-> nh,
                          pendingFrames    |-> en.pendingFrames \cup {nh},
                          lastVelocityY    |-> v],
              scrolled |-> [el |-> scrollableEl, dy |-> v],
              goesOn |-> TRUE]

\* Mutant: a tick that ends the run returns without calling
\* stopInertiaScroll.
InertiaTickEndsWithoutStop(en, h, scrollableEl) ==
    IF scrollableEl = NoEl \/ AbsLessThanOne(en.lastVelocityY)
    THEN [engine |-> en, scrolled |-> NoScroll, goesOn |-> FALSE]
    ELSE LET nh == requestAnimationFrame(en.pendingFrames, {h, en.animationFrameId})
         IN  [engine |-> [animationFrameId |-> nh,
                          pendingFrames    |-> en.pendingFrames \cup {nh},
                          lastVelocityY    |-> Times(en.lastVelocityY, settings.friction)],
              scrolled |-> [el |-> scrollableEl, dy |-> en.lastVelocityY],
              goesOn |-> TRUE]

\* Mutant: a tick that finds no scroll target skips the scroll and goes on.
InertiaTickIgnoresMissingTarget(en, h, scrollableEl) ==
    IF AbsLessThanOne(en.lastVelocityY)
    THEN [engine |-> stopInertiaScroll(en), scrolled |-> NoScroll, goesOn |-> FALSE]
    ELSE LET nh == requestAnimationFrame(en.pendingFrames, {h, en.animationFrameId})
         IN  [engine |-> [animationFrameId |-> nh,
                          pendingFrames    |-> en.pendingFrames \cup {nh},
                          lastVelocityY    |-> Times(en.lastVelocityY, settings.friction)],
              scrolled |-> IF scrollableEl = NoEl THEN NoScroll
                           ELSE [el |-> scrollableEl, dy |-> en.lastVelocityY],
              goesOn |-> TRUE]

\* The body of inertiaStep, run as callback h with h no longer outstanding:
\* the engine it leaves, the scroll it makes, whether the run goes on.
InertiaTick(en, h, scrollableEl) ==
    IF scrollableEl = NoEl \/ AbsLessThanOne(en.lastVelocityY)
    THEN [engine |-> stopInertiaScroll(en), scrolled |-> NoScroll, goesOn |-> FALSE]
    ELSE LET nh == requestAnimationFrame(en.pendingFrames, {h, en.animationFrameId})
         IN  [engine |-> [animationFrameId |-> nh,
                          pendingFrames    |-> en.pendingFrames \cup {nh},
                          lastVelocityY    |-> Times(en.lastVelocityY, settings.friction)],
              scrolled |-> [el |-> scrollableEl, dy |-> en.lastVelocityY],
              goesOn |-> TRUE]

\* The frame scheduler runs the outstanding callback h.
inertiaStep(h) ==
    /\ h \in pendingFrames
    /\ lastOp' = "inertiaStep"
    /\ evtButton' = -1
    /\ defaultPrevented' = FALSE
    /\ propagationStopped' = FALSE
    /\ UNCHANGED <<settings, isDragging, startY, didDrag, bodyClass, view, loaded,
                   confirmedOn, downY, gestureScroll, data>>
    /\ LET fired == [Engine EXCEPT !.pendingFrames = @ \ {h}]
           r == InertiaTick(fired, h, getScrollableElement)
       IN  /\ SetEngine(r.engine)
           /\ scrolled' = r.scrolled
           /\ cancelledFrames' = fired.pendingFrames \ r.engine.pendingFrames
           /\ runSeed' = IF r.goesOn THEN runSeed ELSE Zero
           /\ runTicks' = IF r.goesOn THEN runTicks + 1 ELSE 0

\* Mutant: unload removes the indicator but does not stop the inertia run.
onunloadKeepsRun ==
    /\ loaded
    /\ loaded' = FALSE
    /\ lastOp' = "onunload"
    /\ evtButton' = -1
    /\ defaultPrevented' = FALSE
    /\ propagationStopped' = FALSE
    /\ scrolled' = NoScroll
    /\ bodyClass' = FALSE
    /\ cancelledFrames' = {}
    /\ UNCHANGED <<settings, progVars, pendingFrames, view, confirmedOn,
                   runSeed, runTicks, downY, gestureScroll, data>>

onunload ==
    /\ loaded
    /\ loaded' = FALSE
    /\ lastOp' = "onunload"
    /\ evtButton' = -1
    /\ defaultPrevented' = FALSE
    /\ propagationStopped' = FALSE
    /\ scrolled' = NoScroll
    /\ bodyClass' = FALSE
    /\ SetEngine(stopInertiaScroll(Engine))
    /\ runSeed' = Zero
    /\ runTicks' = 0
    /\ UNCHANGED <<settings, isDragging, startY, didDrag, view, confirmedOn,
                   downY, gestureScroll, data>>
    /\ cancelledFrames' = pendingFrames \ pendingFrames'

\* The user opens, closes or switches the active view, or toggles its mode.
ViewChange(v) ==
    /\ v # view
    /\ view' = v
    /\ lastOp' = "viewchange"
    /\ evtButton' = -1
    /\ defaultPrevented' = FALSE
    /\ propagationStopped' = FALSE
    /\ scrolled' = NoScroll
    /\ cancelledFrames' = {}
    /\ UNCHANGED <<settings, progVars, pendingFrames, bodyClass, loaded,
                   confirmedOn, runSeed, runTicks, downY, gestureScroll, data>>

Next ==
    \/ \E e \in MouseDownEvents : handleMouseDown(e)
    \/ \E e \in MouseMoveEvents : handleMouseMove(e)
    \/ \E e \in MouseUpEvents : handleMouseUp(e)
    \/ handleContextMenu
    \/ \E h \in pendingFrames : inertiaStep(h)
    \/ onunload
    \/ \E v \in Views : ViewChange(v)

Spec == Init /\ [][Next]_vars

\* ------------------------------------------------------ loading the settings

\* The plugin as constructed, before onload, with any record in the store.
LoadInit ==
    /\ data \in StoredData
    /\ settings = NoSettings
    /\ loaded = FALSE
    /\ lastOp = "constructor"
    /\ Constructed

\* onload: loadSettings, then the listeners are registered.
onload ==
    /\ ~loaded
    /\ lastOp = "constructor"
    /\ settings' = loadSettings(data)
    /\ loaded' = TRUE
    /\ lastOp' = "onload"
    /\ UNCHANGED <<progVars, pendingFrames, bodyClass, view, evtButton,
                   defaultPrevented, propagationStopped, scrolled,
                   cancelledFrames, confirmedOn, runSeed, runTicks, downY,
                   gestureScroll, data>>

LoadNext == onload

LoadSpec == LoadInit /\ [][LoadNext]_vars

\* ------------------------------------------- inertia runs left undisturbed

\* The default settings with the friction at the ends of the slider's range
\* and at its default.
RunSettings == {[DEFAULT_SETTINGS EXCEPT !.friction = f] : f \in {80, 92, 99}}

RunInit ==
    /\ data \in RunSettings
    /\ settings = loadSettings(data)
    /\ loaded = TRUE
    /\ lastOp = "onload"
    /\ Constructed

\* No inertia run is active.
Quiet == pendingFrames = {}

\* The frame scheduler runs an outstanding callback.
Tick == \E h \in pendingFrames : inertiaStep(h)

\* The user makes gestures, and delivers no pointer event while a run is
\* active; the view may change at any time.
RunNext ==
    \/ Quiet /\ \E e \in MouseDownEvents : handleMouseDown(e)
    \/ Quiet /\ \E e \in MouseMoveEvents : handleMouseMove(e)
    \/ Quiet /\ \E e \in MouseUpEvents : handleMouseUp(e)
    \/ Quiet /\ handleContextMenu
    \/ Tick
    \/ \E v \in Views : ViewChange(v)

\* requestAnimationFrame runs a callback at the next frame: an outstanding
\* callback is not left waiting for ever.  This is weak fairness of Tick,
\* WF_vars(Tick), written out with ENABLED <<Tick>>_vars replaced by the
\* condition it amounts to: a callback is outstanding.
TickFairness == []<>(pendingFrames = {}) \/ []<><<Tick>>_vars

RunSpec == RunInit /\ [][RunNext]_vars /\ TickFairness

\* ------------------------------------------------------------------ claims

\* C1: a pointer-down that arms the classifier (the one pointer-down whose
\* default action is suppressed) leaves no frame callback outstanding,
\* animationFrameId null and lastVelocityY 0; while the gesture lasts no
\* callback is outstanding, so no inertia tick can scroll; and a callback
\* becomes outstanding again only by a pointer-up that ends a confirmed
\* drag (isDragging and didDrag before it, isDragging false after it).
C1_NewDragCancelsRun ==
    [][ /\ (lastOp' = "mousedown" /\ defaultPrevented')
            => /\ isDragging'
               /\ pendingFrames' = {}
               /\ animationFrameId' = NullFrame
               /\ lastVelocityY' = Zero
        /\ isDragging' => pendingFrames' = {}
        /\ (lastOp' = "inertiaStep" /\ scrolled'.el # NoEl) => ~isDragging
        /\ (pendingFrames = {} /\ pendingFrames' # {})
            => /\ lastOp' = "mouseup"
               /\ isDragging /\ didDrag /\ ~isDragging'
      ]_vars

\* C1 witness: an arming pointer-down has just cancelled the outstanding
\* callback of a run.
C1_Witness ==
    /\ lastOp = "mousedown"
    /\ defaultPrevented
    /\ isDragging
    /\ cancelledFrames # {}

\* C2: at most one inertia frame callback is outstanding, and it is the one
\* whose handle animationFrameId holds.
C2_OneOutstandingFrame ==
    /\ Cardinality(pendingFrames) <= 1
    /\ pendingFrames # {} => pendingFrames = {animationFrameId}

\* C2 witness: a run that has rescheduled itself twice is outstanding.
C2_Witness ==
    /\ pendingFrames # {}
    /\ runTicks >= 2
    /\ animationFrameId \in pendingFrames

\* C3 as stated: a context-menu event is suppressed exactly when the trigger
\* button is 2, didDrag is true and the gesture has ended by pointer-up
\* (isDragging false); after the event didDrag is false.
C3_SuppressedOnlyAfterGestureEnd ==
    [][ lastOp' = "contextmenu"
        => /\ (defaultPrevented' /\ propagationStopped')
                <=> (settings.mouseButton = 2 /\ didDrag /\ ~isDragging)
           /\ ~didDrag'
      ]_vars

\* C3 as amended: a context-menu event has preventDefault and
\* stopImmediatePropagation called exactly when the trigger button is 2 and
\* didDrag is true as the event arrives, whether or not the gesture has
\* ended; after the event didDrag is false.
C3_SuppressedIffRightButtonAndDidDrag ==
    [][ lastOp' = "contextmenu"
        => /\ defaultPrevented' <=> (settings.mouseButton = 2 /\ didDrag)
           /\ propagationStopped' <=> (settings.mouseButton = 2 /\ didDrag)
           /\ ~didDrag'
      ]_vars

\* C3 witness: a context-menu event was suppressed while the drag was still
\* in progress.
C3_Witness ==
    /\ lastOp = "contextmenu"
    /\ defaultPrevented /\ propagationStopped
    /\ isDragging
    /\ settings.mouseButton = 2
    /\ ~didDrag

\* C4 as stated: in a gesture, a move within the threshold of the anchor
\* leaves didDrag false and scrolls nothing; a move beyond the threshold
\* confirms the drag (didDrag true, indicator applied) at that move; and the
\* drag is confirmed only once in the gesture.
C4_OneTransitionAtFirstExceedingMove ==
    [][ \A e \in MouseMoveEvents :
          (handleMouseMove(e) /\ isDragging /\ ~didDrag)
          => /\ Abs(e.clientY - startY) <= DRAG_THRESHOLD
                => (~didDrag' /\ scrolled'.el = NoEl)
             /\ Abs(e.clientY - startY) > DRAG_THRESHOLD
                => (didDrag' /\ bodyClass' /\ confirmedOn = NoEl)
      ]_vars

\* C4 as amended: a move within the threshold of the anchor leaves didDrag
\* false, scrolls nothing and keeps the anchor; a move beyond the threshold
\* confirms the drag at that move if a scroll target is resolvable and
\* changes nothing if none is; a move never clears didDrag, and during a
\* gesture only a context-menu event does, so the drag is confirmed again in
\* the same gesture only after a context-menu event.
C4_TransitionAtFirstResolvableExceedingMove ==
    [][ /\ \A e \in MouseMoveEvents :
             (handleMouseMove(e) /\ isDragging /\ ~didDrag)
             => /\ Abs(e.clientY - startY) <= DRAG_THRESHOLD
                   => (~didDrag' /\ scrolled'.el = NoEl /\ startY' = startY)
                /\ (Abs(e.clientY - startY) > DRAG_THRESHOLD
                      /\ getScrollableElement # NoEl)
                   => (didDrag' /\ bodyClass' /\ scrolled'.el # NoEl)
                /\ (Abs(e.clientY - startY) > DRAG_THRESHOLD
                      /\ getScrollableElement = NoEl)
                   => (~didDrag' /\ scrolled'.el = NoEl /\ startY' = startY
                       /\ bodyClass' = bodyClass)
        /\ (~didDrag /\ didDrag') => (lastOp' = "mousemove" /\ isDragging)
        /\ (isDragging /\ isDragging' /\ didDrag /\ ~didDrag')
             => (lastOp' = "contextmenu" \/ (lastOp' = "mousedown" /\ defaultPrevented'))
      ]_vars

\* C4 witness: a move displaced beyond the threshold has been processed in
\* a gesture whose drag is confirmed, with the indicator applied.
C4_Witness ==
    /\ lastOp = "mousemove"
    /\ isDragging /\ didDrag
    /\ confirmedOn # NoEl
    /\ scrolled.el = confirmedOn
    /\ scrolled.dy \in {Num(10), Num(-10), Num(15), Num(-15)}
    /\ bodyClass

\* C5: a pointer-move processed while dragging (isDragging, didDrag true as
\* the scroll is made) with a scroll target resolvable calls
\* scrollBy(0, -(currentY - anchorY)) on that target, stores the same value
\* in lastVelocityY and rebases the anchor to currentY.
C5_ScrollIsInvertedDelta ==
    [][ \A e \in MouseMoveEvents :
          (handleMouseMove(e) /\ isDragging /\ getScrollableElement # NoEl
             /\ didDrag')
          => /\ scrolled' = [el |-> getScrollableElement,
                             dy |-> Num(0 - (e.clientY - startY))]
             /\ lastVelocityY' = Num(startY - e.clientY)
             /\ startY' = e.clientY
      ]_vars

\* C5 witness: the pointer moved down by 10 while dragging and the content
\* was scrolled by -10.
C5_Witness ==
    /\ lastOp = "mousemove"
    /\ isDragging /\ didDrag
    /\ startY = 100
    /\ scrolled.el # NoEl
    /\ scrolled.dy = [neg |-> TRUE, k |-> 0, digs |-> <<10>>]
    /\ lastVelocityY = scrolled.dy

\* v0 * (f / 100)^n by repeated multiplication.
RECURSIVE TimesPower(_, _, _)
TimesPower(v0, f, n) == IF n = 0 THEN v0 ELSE Times(TimesPower(v0, f, n - 1), f)

RECURSIVE IntPower(_, _)
IntPower(b, n) == IF n = 0 THEN 1 ELSE b * IntPower(b, n - 1)

\* |v| < 1, read off the digits: every digit of the integer part is 0.
MagnitudeBelowOne(v) == \A i \in (v.k + 1)..Len(v.digs) : v.digs[i] = 0

\* C6: during a run seeded with v0, after n scrolling ticks the velocity is
\* v0 * f^n (for n <= 4, where the products fit the checker's integers, also
\* checked in integer arithmetic: |v| * 100^n = |v0| * f^n), and no event other than a tick or the
\* pointer-up that starts a run changes it while a callback is outstanding;
\* a tick entered with a resolvable target and
\* |velocity| >= 1 scrolls by the velocity at entry (v0 * f^(n-1) for the n-th
\* tick), multiplies it by f and leaves one callback outstanding; a tick
\* entered with a resolvable target and |velocity| < 1 scrolls nothing,
\* clears the handle, zeroes the velocity and leaves no callback outstanding.
C6_GeometricDecay ==
    [][ /\ (pendingFrames' # {} /\ lastOp' \notin {"mouseup", "inertiaStep"})
           => UNCHANGED <<lastVelocityY, runSeed, runTicks>>
        /\ (pendingFrames' # {} /\ lastOp' \in {"mouseup", "inertiaStep"})
           => /\ lastVelocityY' = TimesPower(runSeed', settings.friction, runTicks')
              /\ (runTicks' <= 4 /\ lastVelocityY' # Zero)
                 => /\ lastVelocityY'.neg = runSeed'.neg
                    /\ lastVelocityY'.k <= runTicks'
                    /\ DigitsValue(lastVelocityY'.digs)
                         * IntPower(100, runTicks' - lastVelocityY'.k)
                       = DigitsValue(runSeed'.digs)
                         * IntPower(settings.friction, runTicks')
        /\ (lastOp' = "inertiaStep" /\ getScrollableElement # NoEl)
           => IF MagnitudeBelowOne(lastVelocityY)
              THEN /\ scrolled'.el = NoEl
                   /\ animationFrameId' = NullFrame
                   /\ lastVelocityY' = Zero
                   /\ pendingFrames' = {}
              ELSE /\ scrolled' = [el |-> getScrollableElement,
                                   dy |-> TimesPower(runSeed, settings.friction, runTicks)]
                   /\ runTicks' = runTicks + 1
                   /\ runSeed' = runSeed
                   /\ Cardinality(pendingFrames') = 1
      ]_vars

\* C6 witness: seed 10, friction 0.80: the second tick has scrolled by 8 and
\* left velocity 6.4.
C6_Witness ==
    /\ lastOp = "inertiaStep"
    /\ settings.friction = 80
    /\ runSeed = [neg |-> FALSE, k |-> 0, digs |-> <<10>>]
    /\ runTicks = 2
    /\ scrolled.dy = [neg |-> FALSE, k |-> 0, digs |-> <<8>>]
    /\ lastVelocityY = [neg |-> FALSE, k |-> 1, digs |-> <<40, 6>>]
    /\ pendingFrames # {}

\* C7 as stated, for a pointer-down that arrives while no gesture is in
\* progress: if its target is outside the content region it changes no state
\* variable, cancels no callback of an active inertia run and is not
\* suppressed.
C7_OutsideTargetChangesNothing ==
    [][ \A e \in MouseDownEvents :
          (~isDragging /\ ~e.inside /\ handleMouseDown(e))
          => /\ UNCHANGED <<progVars, pendingFrames>>
             /\ cancelledFrames' = {}
             /\ ~defaultPrevented'
      ]_vars

\* C8: a pointer-down whose button differs from the trigger button changes
\* no state variable, cancels no callback of a running inertia run, and is
\* not suppressed.
C8_OtherButtonChangesNothing ==
    [][ (lastOp' = "mousedown" /\ evtButton' # settings.mouseButton)
        => /\ UNCHANGED <<progVars, pendingFrames, bodyClass>>
           /\ cancelledFrames' = {}
           /\ ~defaultPrevented'
           /\ ~propagationStopped'
      ]_vars

\* C8 witness: a pointer-down with another button has been handled while an
\* inertia run is active, and the run is still active.
C8_Witness ==
    /\ lastOp = "mousedown"
    /\ evtButton # settings.mouseButton
    /\ pendingFrames = {animationFrameId}
    /\ lastVelocityY # Zero
    /\ runTicks >= 1

\* The modifier condition of C9.
C9_ModifierHolds(e) ==
    IF settings.modifierKey = "none"
    THEN ~e.ctrlKey /\ ~e.shiftKey /\ ~e.altKey
    ELSE \/ (settings.modifierKey = "ctrl" /\ e.ctrlKey)
         \/ (settings.modifierKey = "shift" /\ e.shiftKey)
         \/ (settings.modifierKey = "alt" /\ e.altKey)

\* A scroll target is resolvable: a view is active and its container holds
\* the scroller of its mode.
C9_Resolvable ==
    \/ (view.mode = "source" /\ "cm-scroller" \in view.els)
    \/ (view.mode = "preview" /\ "markdown-preview-view" \in view.els)

\* C9: in every state with the listeners registered and for every
\* pointer-down event, handling it arms the classifier (isDragging true,
\* anchor set to the event's Y, didDrag false, lastVelocityY 0) and
\* suppresses the event if the button is the trigger button, the modifier
\* condition holds, the target is inside the content region and a scroll
\* target is resolvable; otherwise it does not suppress the event and leaves
\* isDragging, the anchor and didDrag unchanged.
C9_ArmsIffAllConditions ==
    loaded =>
      \A e \in MouseDownEvents :
        IF /\ e.button = settings.mouseButton
           /\ C9_ModifierHolds(e)
           /\ e.inside
           /\ C9_Resolvable
        THEN ENABLED ( /\ handleMouseDown(e)
                       /\ defaultPrevented'
                       /\ isDragging'
                       /\ startY' = e.clientY
                       /\ ~didDrag'
                       /\ lastVelocityY' = Zero )
        ELSE ENABLED ( /\ handleMouseDown(e)
                       /\ ~defaultPrevented'
                       /\ UNCHANGED <<isDragging, startY, didDrag>> )

\* C9 witness: with modifier ctrl configured, a pointer-down has armed the
\* classifier and was suppressed.
C9_Witness ==
    /\ lastOp = "mousedown"
    /\ settings.modifierKey = "ctrl"
    /\ defaultPrevented
    /\ isDragging /\ ~didDrag
    /\ startY = 90

\* C10 as stated: once a drag confirmed on the source-mode scroller continues
\* with the view in preview mode, a pointer-move scrolls nothing and leaves
\* the anchor and lastVelocityY unchanged.
C10_MovesAreNoOpsAfterModeSwitch ==
    [][ (lastOp' = "mousemove" /\ isDragging /\ didDrag
           /\ confirmedOn = "cm-scroller" /\ view.mode = "preview")
        => /\ scrolled'.el = NoEl
           /\ UNCHANGED <<startY, lastVelocityY>>
      ]_vars

\* C10 as amended: once a drag confirmed on the source-mode scroller
\* continues with the view in preview mode, a pointer-move scrolls the
\* preview scroller by -(currentY - anchorY), stores that in lastVelocityY and
\* rebases the anchor, when the view's container holds the preview scroller;
\* it is a no-op only when no scroll target is resolvable.
C10_MovesFollowTheNewMode ==
    [][ \A e \in MouseMoveEvents :
          (handleMouseMove(e) /\ isDragging /\ didDrag
             /\ confirmedOn = "cm-scroller" /\ view.mode = "preview")
          => IF "markdown-preview-view" \in view.els
             THEN /\ scrolled' = [el |-> "markdown-preview-view",
                                  dy |-> Num(startY - e.clientY)]
                  /\ lastVelocityY' = Num(startY - e.clientY)
                  /\ startY' = e.clientY
             ELSE /\ scrolled'.el = NoEl
                  /\ UNCHANGED <<startY, lastVelocityY, didDrag>>
      ]_vars

\* C10 witness: a drag confirmed on the source-mode scroller has scrolled the
\* preview scroller.
C10_Witness ==
    /\ lastOp = "mousemove"
    /\ isDragging /\ didDrag
    /\ confirmedOn = "cm-scroller"
    /\ view.mode = "preview"
    /\ scrolled.el = "markdown-preview-view"
    /\ scrolled.dy # Zero

\* C11: unload, from whatever state it is called in, leaves no frame callback
\* outstanding, animationFrameId null and the indicator class removed; and
\* while the plugin stays unloaded none of the three comes back.
C11_UnloadLeavesNothingBehind ==
    [][ /\ lastOp' = "onunload"
           => /\ pendingFrames' = {}
              /\ animationFrameId' = NullFrame
              /\ ~bodyClass'
              /\ ~loaded'
        /\ ~loaded'
           => /\ pendingFrames' = {}
              /\ animationFrameId' = NullFrame
              /\ ~bodyClass'
      ]_vars

\* C11 witness: the plugin was unloaded while an inertia run was active, and
\* the run's callback was cancelled.
C11_Witness ==
    /\ lastOp = "onunload"
    /\ ~loaded
    /\ cancelledFrames # {}
    /\ pendingFrames = {}
    /\ ~bodyClass

\* C12 as stated: after the settings are loaded, every field that the stored
\* record does not have, and every field whose stored value is outside the
\* field's allowed set, holds its default value.
C12_MissingOrMalformedKeepDefault ==
    loaded =>
      \A f \in Fields :
        (f \notin DOMAIN data \/ data[f] \notin AllowedValues(f))
        => settings[f] = DEFAULT_SETTINGS[f]

\* The events of the scenario of C13.
C13_Down ==
    [button |-> 2, ctrlKey |-> FALSE, altKey |-> FALSE, shiftKey |-> FALSE,
     inside |-> TRUE, clientY |-> 100]

\* The scenario of C13 up to its second tick, step by step, each step from
\* every state the step before it can leave: with the default settings
\* (trigger 2, modifier none, friction 0.92) and a scroll target resolvable,
\* pointer-down at 100 arms; from there the move to 90 confirms the drag and
\* scrolls by 10, leaving velocity 10 and the anchor at 90; the move to 85
\* scrolls by 5, leaving velocity 5; the pointer-up starts a run and keeps
\* velocity 5; the tick entered with velocity 5 scrolls by 5 and leaves 4.6;
\* the tick entered with 4.6 scrolls by 4.6 and leaves 4.232.
C13_ScenarioSteps ==
    (settings = DEFAULT_SETTINGS /\ C9_Resolvable)
    => /\ handleMouseDown(C13_Down)
          => /\ isDragging' /\ ~didDrag'
             /\ startY' = 100
             /\ lastVelocityY' = Zero
             /\ scrolled'.el = NoEl
       /\ (handleMouseMove([clientY |-> 90]) /\ isDragging /\ ~didDrag
             /\ startY = 100)
          => /\ didDrag' /\ bodyClass'
             /\ scrolled'.el # NoEl
             /\ scrolled'.dy = [neg |-> FALSE, k |-> 0, digs |-> <<10>>]
             /\ lastVelocityY' = [neg |-> FALSE, k |-> 0, digs |-> <<10>>]
             /\ startY' = 90
       /\ (handleMouseMove([clientY |-> 85]) /\ isDragging /\ didDrag
             /\ startY = 90)
          => /\ didDrag'
             /\ scrolled'.el # NoEl
             /\ scrolled'.dy = [neg |-> FALSE, k |-> 0, digs |-> <<5>>]
             /\ lastVelocityY' = [neg |-> FALSE, k |-> 0, digs |-> <<5>>]
             /\ startY' = 85
       /\ (handleMouseUp([button |-> 2]) /\ isDragging /\ didDrag
             /\ lastVelocityY = [neg |-> FALSE, k |-> 0, digs |-> <<5>>])
          => /\ ~isDragging' /\ ~bodyClass'
             /\ Cardinality(pendingFrames') = 1
             /\ lastVelocityY' = [neg |-> FALSE, k |-> 0, digs |-> <<5>>]
             /\ scrolled'.el = NoEl
       /\ (lastOp' = "inertiaStep"
             /\ lastVelocityY = [neg |-> FALSE, k |-> 0, digs |-> <<5>>])
          => /\ scrolled'.el # NoEl
             /\ scrolled'.dy = [neg |-> FALSE, k |-> 0, digs |-> <<5>>]
             /\ lastVelocityY' = [neg |-> FALSE, k |-> 1, digs |-> <<60, 4>>]
             /\ Cardinality(pendingFrames') = 1
       /\ (lastOp' = "inertiaStep"
             /\ lastVelocityY = [neg |-> FALSE, k |-> 1, digs |-> <<60, 4>>])
          => /\ scrolled'.el # NoEl
             /\ scrolled'.dy = [neg |-> FALSE, k |-> 1, digs |-> <<60, 4>>]
             /\ lastVelocityY' = [neg |-> FALSE, k |-> 2, digs |-> <<20, 23, 4>>]
             /\ Cardinality(pendingFrames') = 1

\* C13 as stated: the scenario's steps, and the run seeded with 5 ends (a
\* tick stops it, target resolvable) at about tick 30, read as tick 25 to 35.
C13_ScenarioEndsAboutTick30 ==
    [][ /\ C13_ScenarioSteps
        /\ (settings = DEFAULT_SETTINGS /\ C9_Resolvable
              /\ lastOp' = "inertiaStep" /\ pendingFrames' = {}
              /\ runSeed = [neg |-> FALSE, k |-> 0, digs |-> <<5>>])
           => runTicks + 1 \in 25..35
      ]_vars

\* C13 as amended: the scenario's steps, and the run seeded with 5 makes 20
\* scrolling ticks (the velocity is 1 or more at each) and ends at tick 21:
\* that tick finds the velocity 5 * 0.92^20 below 1, scrolls nothing, clears
\* the handle and zeroes the velocity.
C13_ScenarioEndsAtTick21 ==
    [][ /\ C13_ScenarioSteps
        /\ (settings = DEFAULT_SETTINGS /\ C9_Resolvable
              /\ lastOp' = "inertiaStep"
              /\ runSeed = [neg |-> FALSE, k |-> 0, digs |-> <<5>>])
           => IF runTicks < 20
              THEN /\ ~MagnitudeBelowOne(lastVelocityY)
                   /\ scrolled'.el # NoEl
                   /\ scrolled'.dy = lastVelocityY
                   /\ Cardinality(pendingFrames') = 1
                   /\ runTicks' = runTicks + 1
              ELSE /\ runTicks = 20
                   /\ MagnitudeBelowOne(lastVelocityY)
                   /\ lastVelocityY # Zero
                   /\ scrolled'.el = NoEl
                   /\ pendingFrames' = {}
                   /\ animationFrameId' = NullFrame
                   /\ lastVelocityY' = Zero
      ]_vars

\* C13 witness: the scenario's run has made its 20th scrolling tick and holds
\* the velocity 5 * 0.92^20, which is below 1; the next tick ends it.
C13_Witness ==
    /\ settings = DEFAULT_SETTINGS
    /\ lastOp = "inertiaStep"
    /\ runSeed = [neg |-> FALSE, k |-> 0, digs |-> <<5>>]
    /\ runTicks = 20
    /\ startY = 85
    /\ scrolled.el # NoEl
    /\ lastVelocityY = TimesPower(runSeed, 92, 20)
    /\ MagnitudeBelowOne(lastVelocityY)
    /\ pendingFrames # {}

\* C14 as stated.  A trigger-button pointer-up that ends a gesture whose
\* drag was never confirmed scrolls nothing (and the gesture has scrolled
\* nothing), leaves animationFrameId null and no callback outstanding, and
\* leaves didDrag false, so that the context-menu event that follows is not
\* suppressed.  A trigger-button pointer-up that ends a gesture in Dragging
\* (isDragging and didDrag) removes the indicator and leaves exactly one
\* callback outstanding, none having been outstanding before, with the
\* velocity it found; and that velocity is the delta of the gesture's last
\* processed pointer-move: a move that scrolls stores its delta, and while
\* the gesture stays in Dragging with the listeners registered nothing else
\* changes the velocity.
C14_ClickOrDragAtPointerUp ==
    [][ /\ (lastOp' = "mouseup" /\ evtButton' = settings.mouseButton
              /\ isDragging /\ confirmedOn = NoEl)
           => /\ ~isDragging'
              /\ gestureScroll = 0
              /\ scrolled'.el = NoEl
              /\ animationFrameId = NullFrame /\ animationFrameId' = NullFrame
              /\ pendingFrames' = {}
              /\ ~didDrag'
              /\ ~ContextMenuSuppresses'
        /\ (lastOp' = "mouseup" /\ evtButton' = settings.mouseButton
              /\ isDragging /\ didDrag)
           => /\ ~isDragging'
              /\ ~bodyClass'
              /\ pendingFrames = {}
              /\ pendingFrames' = {animationFrameId'}
              /\ animationFrameId' # NullFrame
              /\ lastVelocityY' = lastVelocityY
              /\ scrolled'.el = NoEl
        /\ (lastOp' = "mousemove" /\ scrolled'.el # NoEl)
           => lastVelocityY' = scrolled'.dy
        /\ (isDragging /\ didDrag /\ isDragging' /\ didDrag' /\ loaded'
              /\ ~(lastOp' = "mousemove" /\ scrolled'.el # NoEl))
           => lastVelocityY' = lastVelocityY
      ]_vars

\* C15: with the friction in 0.80 .. 0.99, frame callbacks run fairly and no
\* pointer event delivered while a run is active, every run that is started
\* leads to a state with no callback outstanding, animationFrameId null and
\* velocity 0; and whenever animationFrameId is null no callback is
\* outstanding, so no tick fires until a later pointer-up starts a new run.
C15_EveryRunTerminates ==
    /\ (pendingFrames # {})
          ~> (pendingFrames = {} /\ animationFrameId = NullFrame
              /\ lastVelocityY = Zero)
    /\ [](animationFrameId = NullFrame => pendingFrames = {})
    /\ [][(pendingFrames = {} /\ pendingFrames' # {}) => lastOp' = "mouseup"]_vars

\* C15 witness: with friction 0.99 a run seeded with 15 has ended by itself:
\* the tick found a resolvable target and the velocity decayed below 1.
C15_Witness ==
    /\ settings.friction = 99
    /\ lastOp = "inertiaStep"
    /\ C9_Resolvable
    /\ startY = 85 /\ didDrag /\ ~isDragging
    /\ pendingFrames = {}
    /\ animationFrameId = NullFrame
    /\ lastVelocityY = Zero

\* C16: while no scroll target is resolvable, an inertia tick scrolls
\* nothing and ends the run (handle null, velocity 0, no callback
\* outstanding), and a pointer-move during a gesture, Armed or Dragging,
\* scrolls nothing and leaves isDragging, didDrag, the anchor, lastVelocityY
\* and the indicator unchanged; isDragging turns false only at a pointer-up
\* with the trigger button.
C16_UnresolvableTarget ==
    [][ /\ (lastOp' = "inertiaStep" /\ ~C9_Resolvable)
           => /\ scrolled'.el = NoEl
              /\ animationFrameId' = NullFrame
              /\ lastVelocityY' = Zero
              /\ pendingFrames' = {}
        /\ (lastOp' = "mousemove" /\ isDragging /\ ~C9_Resolvable)
           => /\ scrolled'.el = NoEl
              /\ UNCHANGED <<isDragging, didDrag, startY, lastVelocityY, bodyClass>>
        /\ (isDragging /\ ~isDragging')
           => (lastOp' = "mouseup" /\ evtButton' = settings.mouseButton)
      ]_vars

\* C16 witness: in a confirmed drag the scroll target has become
\* unresolvable and a pointer-move away from the anchor was handled: nothing
\* scrolled, the gesture is still active.
C16_Witness ==
    /\ lastOp = "mousemove"
    /\ ~C9_Resolvable
    /\ isDragging /\ didDrag
    /\ confirmedOn # NoEl
    /\ scrolled.el = NoEl
    /\ lastVelocityY # Zero
    /\ startY = 90

\* C17: stopInertiaScroll, called in any reachable state of the engine, run
\* active or not, leaves animationFrameId null and the velocity 0, cancels the
\* stored callback and no other, and called again changes nothing more; and
\* the handlers that call nothing else that writes state (a pointer-down
\* that does not arm, unload apart from the indicator) leave isDragging,
\* didDrag and the anchor as they were, the pointer-down also the indicator.
C17_StopIsIdempotentAndTotal ==
    [][ LET once  == stopInertiaScroll(Engine)
            twice == stopInertiaScroll(once)
        IN  /\ once.animationFrameId = NullFrame
            /\ once.lastVelocityY = Zero
            /\ once.pendingFrames = pendingFrames \ {animationFrameId}
            /\ twice = once
            /\ (lastOp' = "mousedown" /\ ~defaultPrevented')
               => /\ Engine' \in {Engine, once}
                  /\ UNCHANGED <<isDragging, didDrag, startY, bodyClass>>
            /\ lastOp' = "onunload"
               => /\ Engine' = once
                  /\ UNCHANGED <<isDragging, didDrag, startY>>
      ]_vars

\* C17 witness: stopInertiaScroll has run (at unload) with no run active,
\* in the middle of a confirmed drag whose velocity was not 0.
C17_Witness ==
    /\ lastOp = "onunload"
    /\ cancelledFrames = {}
    /\ isDragging /\ didDrag
    /\ gestureScroll # 0
    /\ animationFrameId = NullFrame
    /\ lastVelocityY = Zero

\* C18: in every reachable state where no gesture is active (isDragging is
\* false) the body class is-dragging-to-scroll is not applied; the class is
\* applied only while isDragging and didDrag are both true.
C18_IndicatorOnlyWhileDragging ==
    (loaded /\ bodyClass) => (isDragging /\ didDrag)

\* C19: a gesture and an inertia run are never active together: whenever
\* animationFrameId is non-null (or any tick callback is pending) isDragging
\* is false, so a pointer-move that writes lastVelocityY happens with no
\* tick pending and a tick runs only with no gesture active.
C19_GestureAndRunExclusive ==
    /\ [](animationFrameId # NullFrame => ~isDragging)
    /\ [](pendingFrames # {} => ~isDragging)
    /\ [][ /\ (lastOp' = "mousemove" /\ scrolled'.el # NoEl)
              => /\ animationFrameId = NullFrame
                 /\ pendingFrames = {}
                 /\ UNCHANGED <<animationFrameId, pendingFrames>>
           /\ (lastOp' = "inertiaStep") => (~isDragging /\ ~isDragging')
         ]_vars

\* C19 witness: a run is in progress (a tick has scrolled and re-scheduled
\* itself) after a confirmed drag, with no gesture active.
C19_Witness ==
    /\ lastOp = "inertiaStep"
    /\ animationFrameId # NullFrame
    /\ scrolled.el # NoEl
    /\ lastVelocityY # Zero
    /\ ~isDragging

\* C20: at every point of a gesture the scroll deltas applied by its
\* pointer-moves sum to (pointer-down Y - startY). Until the threshold is
\* first crossed the sum is 0 and startY is still the pointer-down Y; the
\* crossing move scrolls by its whole displacement from the pointer-down; a
\* processed move leaves the sum at pointer-down Y minus its own Y, and a
\* move that scrolls nothing (target unresolvable, or threshold not crossed)
\* leaves sum and anchor alone, so the next processed move catches up.
C20_ScrollSumIsDisplacement ==
    /\ [](isDragging => gestureScroll = downY - startY)
    /\ []((isDragging /\ confirmedOn = NoEl)
             => (gestureScroll = 0 /\ startY = downY))
    /\ [][ /\ (lastOp' = "mousemove" /\ isDragging /\ scrolled'.el # NoEl)
              => /\ IntValue(scrolled'.dy) = startY - startY'
                 /\ gestureScroll' = gestureScroll + (startY - startY')
           /\ (lastOp' = "mousemove" /\ isDragging /\ confirmedOn = NoEl
                 /\ confirmedOn' # NoEl)
              => /\ scrolled'.el # NoEl
                 /\ IntValue(scrolled'.dy) = downY - startY'
                 /\ Abs(downY - startY') > DRAG_THRESHOLD
           /\ (lastOp' = "mousemove" /\ isDragging /\ scrolled'.el = NoEl)
              => UNCHANGED <<gestureScroll, startY, downY>>
         ]_vars

\* C20 witness: a confirmed drag on which several moves have been processed
\* while the target had changed since the drag was confirmed: the last move
\* scrolled by less than the whole displacement, and the sum of all deltas
\* is pointer-down Y minus the anchor.
C20_Witness ==
    /\ lastOp = "mousemove"
    /\ isDragging /\ didDrag
    /\ scrolled.el # NoEl
    /\ scrolled.el # confirmedOn
    /\ gestureScroll = downY - startY
    /\ gestureScroll # IntValue(scrolled.dy)
    /\ Abs(gestureScroll) > DRAG_THRESHOLD

====
